---- MODULE Spec2Model ----
(***************************************************************************)
(* Model of the evm-light-client verification core:                        *)
(*   - consensus/src/fork.rs: the fork table (ForkParameters)              *)
(*   - light_client_verifier/src/context.rs: Fraction, LightClientContext  *)
(*   - lodestar_rpc/src/types.rs: wire data -> LightClientUpdate           *)
(* A host constructs values once, moves them into a context and then only  *)
(* queries them; `result` always holds the last call and what it returned. *)
(* A response of the beacon node is received and converted once.           *)
(***************************************************************************)
EXTENDS Integers, Sequences, FiniteSets, TLC

VARIABLES
    fork_parameters,      \* the ForkParameters value the host holds, or None
    fork_origin,          \* how that value was made: "none", "new", "default", "deserialize"
    signature_threshold,  \* the Fraction value the host holds, or None
    threshold_origin,     \* how that value was made: "none", "new", "default", "deserialize"
    ctx,                  \* the LightClientContext, or None before LightClientContext::new
    result,               \* the last call: its name, its arguments and what it returned
    response,             \* the wire data received from the beacon node, or None
    update,               \* the LightClientUpdate made from the response, or None
    store,                \* the light client Store, or None before bootstrap
    call,                 \* the process_update call in flight, or None
    persist               \* the PersistCommand::run in progress and what it did, or None

vars == <<fork_parameters, fork_origin, signature_threshold, threshold_origin, ctx, result,
          response, update, store, call, persist>>

---------------------------------------------------------------------------
\* Bounds of the explored inputs

\* fork tables of up to MaxForks entries are enumerated exhaustively
MaxForks == 2
\* activation epochs 0..MaxEpoch
MaxEpoch == 2
\* slots_per_epoch 1..MaxSlotsPerEpoch
MaxSlotsPerEpoch == 2
\* Fraction numerators and denominators 0..MaxNum
MaxNum == 3
\* opaque values (headers, sync aggregates, slots of an update) 0..MaxId
MaxId == 1
\* Merkle branches of up to MaxBranch hashes
MaxBranch == 1
\* the const generic SYNC_COMMITTEE_SIZE, the number of public keys in a committee
SYNC_COMMITTEE_SIZE == 2
\* genesis times and clock readings 0..MaxTime
MaxTime == 4
\* seconds_per_slot 1..MaxSecondsPerSlot
MaxSecondsPerSlot == 3
\* header slots of the store and of updates 0..MaxStoreSlot
MaxStoreSlot == 3
\* process_update calls in one run
MaxUpdates == 2

---------------------------------------------------------------------------
\* Option and Result

None == [tag |-> "None"]

Some(x) == [tag |-> "Some", value |-> x]

Ok(x) == [tag |-> "Ok", value |-> x]

Err(e) == [tag |-> "Err", error |-> e]

---------------------------------------------------------------------------
\* consensus/src/fork.rs

GENESIS_SPEC ==
    [ finalized_root_gindex |-> 105,
      current_sync_committee_gindex |-> 0,
      next_sync_committee_gindex |-> 0,
      execution_payload_gindex |-> 0,
      execution_payload_state_root_gindex |-> 0,
      execution_payload_block_number_gindex |-> 0 ]

ALTAIR_INDEX == 0

BELLATRIX_INDEX == 1

CAPELLA_INDEX == 2

DENEB_INDEX == 3

ELECTRA_INDEX == 4

\* Version([i, 0, 0, 1]), the versions the repository's test uses
Version(i) == <<i, 0, 0, 1>>

\* Version::default(), four zero bytes
DefaultVersion == <<0, 0, 0, 0>>

\* A ForkSpec value for the i-th fork after genesis (i >= 1): every field is a
\* public u32, so any value can be built; these differ from GENESIS_SPEC and
\* from each other.
ForkSpecOf(i) ==
    [ finalized_root_gindex |-> 105,
      current_sync_committee_gindex |-> 54,
      next_sync_committee_gindex |-> 55,
      execution_payload_gindex |-> i,
      execution_payload_state_root_gindex |-> 0,
      execution_payload_block_number_gindex |-> 0 ]

\* ForkParameter::new(version, epoch, spec)
ForkParameter(version, epoch, spec) ==
    [version |-> version, epoch |-> epoch, spec |-> spec]

\* slice::windows(2): the adjacent pairs of a sequence, in order
windows2(s) ==
    [i \in 1..(IF Len(s) >= 2 THEN Len(s) - 1 ELSE 0) |-> <<s[i], s[i + 1]>>]

\* a validate that rejects equal activation epochs (< for <=)
validate_strict(self) ==
    IF self.forks = <<>>
    THEN Err([kind |-> "NotSupportedLightClient"])
    ELSE IF \A k \in DOMAIN windows2(self.forks) :
               windows2(self.forks)[k][1].epoch < windows2(self.forks)[k][2].epoch
         THEN Ok(<<>>)
         ELSE Err([kind |-> "InvalidForkParamersOrder", params |-> self])

\* ForkParameters::validate
validate(self) ==
    IF self.forks = <<>>
    THEN Err([kind |-> "NotSupportedLightClient"])
    ELSE IF \A k \in DOMAIN windows2(self.forks) :
               windows2(self.forks)[k][1].epoch <= windows2(self.forks)[k][2].epoch
         THEN Ok(<<>>)
         ELSE Err([kind |-> "InvalidForkParamersOrder", params |-> self])

\* ForkParameters::new: build the value, validate()?, Ok(this)
ForkParameters_new(genesis_version, forks) ==
    LET this == [genesis_version |-> genesis_version, forks |-> forks]
    IN  IF validate(this).tag = "Err" THEN validate(this) ELSE Ok(this)

\* #[derive(Default)]: default version, empty Vec
ForkParameters_default == [genesis_version |-> DefaultVersion, forks |-> <<>>]

\* #[derive(serde::Deserialize)]: the fields as read, validate() is not called
ForkParameters_deserialize(genesis_version, forks) ==
    [genesis_version |-> genesis_version, forks |-> forks]

\* iter().enumerate().rev().find(..): scan from entry i down to the first entry
RECURSIVE rfind(_, _, _)
rfind(forks, i, epoch) ==
    IF i = 0 THEN None
    ELSE IF epoch >= forks[i].epoch
         THEN Some(<<i - 1, forks[i]>>)
         ELSE rfind(forks, i - 1, epoch)

\* iter().enumerate().find(..): the same scan without rev()
RECURSIVE ffind(_, _, _)
ffind(forks, i, epoch) ==
    IF i > Len(forks) THEN None
    ELSE IF epoch >= forks[i].epoch
         THEN Some(<<i - 1, forks[i]>>)
         ELSE ffind(forks, i + 1, epoch)

\* a compute_fork that lost its rev(): the first active fork, not the last
compute_fork_first(self, epoch) == ffind(self.forks, 1, epoch)

\* ForkParameters::compute_fork: Option<(usize, &ForkParameter)>, 0-based index
compute_fork(self, epoch) == rfind(self.forks, Len(self.forks), epoch)

\* ForkParameters::compute_fork_version
compute_fork_version(self, epoch) ==
    IF compute_fork(self, epoch).tag = "Some"
    THEN compute_fork(self, epoch).value[2].version
    ELSE self.genesis_version

\* ForkParameters::compute_fork_spec
compute_fork_spec(self, epoch) ==
    IF compute_fork(self, epoch).tag = "Some"
    THEN compute_fork(self, epoch).value[2].spec
    ELSE GENESIS_SPEC

\* an is_fork with > for >=
is_fork_strict(self, epoch, fork_index) ==
    IF compute_fork(self, epoch).tag = "Some"
    THEN compute_fork(self, epoch).value[1] > fork_index
    ELSE FALSE

\* ForkParameters::is_fork
is_fork(self, epoch, fork_index) ==
    IF compute_fork(self, epoch).tag = "Some"
    THEN compute_fork(self, epoch).value[1] >= fork_index
    ELSE FALSE

---------------------------------------------------------------------------
\* light_client_verifier/src/context.rs

\* a Fraction::new that also rejects numerator = denominator (>= for >)
Fraction_new_strict(numerator, denominator) ==
    IF denominator = 0 \/ numerator >= denominator
    THEN Err([kind |-> "InvalidFraction",
              fraction |-> [numerator |-> numerator, denominator |-> denominator]])
    ELSE Ok([numerator |-> numerator, denominator |-> denominator])

\* Fraction::new
Fraction_new(numerator, denominator) ==
    IF denominator = 0 \/ numerator > denominator
    THEN Err([kind |-> "InvalidFraction",
              fraction |-> [numerator |-> numerator, denominator |-> denominator]])
    ELSE Ok([numerator |-> numerator, denominator |-> denominator])

\* #[derive(Default)]: both u64 fields are 0
Fraction_default == [numerator |-> 0, denominator |-> 0]

\* #[derive(serde::Deserialize)]: the fields as read, Fraction::new is not called
Fraction_deserialize(numerator, denominator) ==
    [numerator |-> numerator, denominator |-> denominator]

\* Fraction::numerator
numerator(self) == self.numerator

\* Fraction::denominator
denominator(self) == self.denominator

\* LightClientContext::new: every argument is stored as given
LightClientContext_new(fork_params, seconds_per_slot, slots_per_epoch, epochs_per_sync_committee_period, genesis_time, genesis_validators_root, min_sync_committee_participants, threshold, current_timestamp) ==
    [ fork_parameters |-> fork_params,
      seconds_per_slot |-> seconds_per_slot,
      slots_per_epoch |-> slots_per_epoch,
      epochs_per_sync_committee_period |-> epochs_per_sync_committee_period,
      genesis_time |-> genesis_time,
      genesis_validators_root |-> genesis_validators_root,
      min_sync_committee_participants |-> min_sync_committee_participants,
      signature_threshold |-> threshold,
      current_timestamp |-> current_timestamp ]

\* ConsensusVerificationContext::signature_threshold for LightClientContext
ctx_signature_threshold(self) == self.signature_threshold

\* ChainContext::fork_parameters for LightClientContext
ctx_fork_parameters(self) == self.fork_parameters

\* compute::compute_epoch_at_slot: slot / slots_per_epoch
compute_epoch_at_slot(self, slot) == slot \div self.slots_per_epoch

\* a context compute_fork_spec that passes the slot where the epoch belongs
ctx_compute_fork_spec_slot(self, slot) ==
    compute_fork_spec(ctx_fork_parameters(self), slot)

\* ChainConsensusVerificationContext::compute_fork_spec
ctx_compute_fork_spec(self, slot) ==
    compute_fork_spec(ctx_fork_parameters(self), compute_epoch_at_slot(self, slot))

---------------------------------------------------------------------------
\* Inputs

\* all sequences over S of length 0..n
SeqsUpTo(S, n) == UNION {[1..k -> S] : k \in 0..n}

\* the forks that the enumerated tables are built from: versions are opaque
\* labels, two of them tell the entries of a table apart
ForkInputs == {1, 2}

\* the fork entries tables are built from: fork v with its own spec, any epoch
ForkParameterInputs ==
    {ForkParameter(Version(v), e, ForkSpecOf(v)) : v \in ForkInputs, e \in 0..MaxEpoch}

\* test_fork_parameters: the five forks, all active from epoch 0
AllZeroForks ==
    [i \in 1..5 |-> ForkParameter(Version(i), 0, ForkSpecOf(i))]

\* test_fork_parameters: the five forks, activated at epochs 0, 1, 2, 3, 4
AscendingForks ==
    [i \in 1..5 |-> ForkParameter(Version(i), i - 1, ForkSpecOf(i))]

\* the genesis version of test_fork_parameters
TestGenesisVersion == Version(0)

\* a one-fork table whose entry was built with the public GENESIS_SPEC constant
GenesisSpecForks == <<ForkParameter(Version(1), 1, GENESIS_SPEC)>>

ForkTableInputs ==
    SeqsUpTo(ForkParameterInputs, MaxForks)
        \cup {AllZeroForks, AscendingForks, GenesisSpecForks}

\* the epochs asked for: past the last activation epoch, and those of the test
EpochInputs == (0..(MaxEpoch + 1)) \cup (0..5)

ForkIndexInputs ==
    (0..MaxForks) \cup {ALTAIR_INDEX, BELLATRIX_INDEX, CAPELLA_INDEX, DENEB_INDEX, ELECTRA_INDEX}

SlotsPerEpochInputs == 1..MaxSlotsPerEpoch

SlotInputs == 0..((MaxEpoch + 1) * MaxSlotsPerEpoch + 1)

NumInputs == 0..MaxNum

---------------------------------------------------------------------------
\* Construction of the fork table

\* ForkParameters::new(genesis_version, forks), for any table
ForkParametersNew ==
    /\ fork_parameters = None /\ ctx = None
    /\ \E forks \in ForkTableInputs :
           LET res == ForkParameters_new(TestGenesisVersion, forks)
           IN  /\ result' = [op |-> "ForkParameters::new",
                             genesis_version |-> TestGenesisVersion,
                             forks |-> forks, ret |-> res]
               /\ IF res.tag = "Ok"
                  THEN fork_parameters' = res.value /\ fork_origin' = "new"
                  ELSE UNCHANGED <<fork_parameters, fork_origin>>
    /\ UNCHANGED <<store, call, persist>>
    /\ UNCHANGED <<signature_threshold, threshold_origin, ctx, response, update>>

\* ForkParameters::default()
ForkParametersDefault ==
    /\ fork_parameters = None /\ ctx = None
    /\ fork_parameters' = ForkParameters_default
    /\ fork_origin' = "default"
    /\ result' = [op |-> "ForkParameters::default", ret |-> ForkParameters_default]
    /\ UNCHANGED <<store, call, persist>>
    /\ UNCHANGED <<signature_threshold, threshold_origin, ctx, response, update>>

\* serde deserialization of a ForkParameters, for any table
ForkParametersDeserialize ==
    /\ fork_parameters = None /\ ctx = None
    /\ \E forks \in ForkTableInputs :
           /\ fork_parameters' = ForkParameters_deserialize(TestGenesisVersion, forks)
           /\ result' = [op |-> "ForkParameters::deserialize",
                         ret |-> ForkParameters_deserialize(TestGenesisVersion, forks)]
    /\ fork_origin' = "deserialize"
    /\ UNCHANGED <<store, call, persist>>
    /\ UNCHANGED <<signature_threshold, threshold_origin, ctx, response, update>>

---------------------------------------------------------------------------
\* Queries on the fork table (all take &self)

ComputeForkVersion(epoch) ==
    /\ fork_parameters # None
    /\ result' = [op |-> "compute_fork_version", self |-> fork_parameters,
                  epoch |-> epoch,
                  ret |-> compute_fork_version(fork_parameters, epoch)]
    /\ UNCHANGED <<store, call, persist>>
    /\ UNCHANGED <<fork_parameters, fork_origin, signature_threshold, threshold_origin, ctx, response, update>>

IsFork(epoch, fork_index) ==
    /\ fork_parameters # None
    /\ result' = [op |-> "is_fork", self |-> fork_parameters,
                  epoch |-> epoch, fork_index |-> fork_index,
                  ret |-> is_fork(fork_parameters, epoch, fork_index)]
    /\ UNCHANGED <<store, call, persist>>
    /\ UNCHANGED <<fork_parameters, fork_origin, signature_threshold, threshold_origin, ctx, response, update>>

---------------------------------------------------------------------------
\* The context

\* LightClientContext::new: the fork table and the threshold move into the
\* context. The preset values are those of a mainnet-like configuration;
\* slots_per_epoch is chosen.
NewContext(slots_per_epoch) ==
    /\ ctx = None
    /\ fork_parameters # None
    /\ signature_threshold # None
    /\ ctx' = LightClientContext_new(fork_parameters, 12, slots_per_epoch, 256, 0,
                                     0, 1, signature_threshold, 0)
    /\ fork_parameters' = None
    /\ signature_threshold' = None
    /\ result' = [op |-> "LightClientContext::new"]
    /\ UNCHANGED <<store, call, persist>>
    /\ UNCHANGED <<fork_origin, threshold_origin, response, update>>

\* ChainConsensusVerificationContext::compute_fork_spec(slot)
ContextComputeForkSpec(slot) ==
    /\ ctx # None
    /\ result' = [op |-> "ctx.compute_fork_spec", self |-> ctx, slot |-> slot,
                  ret |-> ctx_compute_fork_spec(ctx, slot)]
    /\ UNCHANGED <<store, call, persist>>
    /\ UNCHANGED <<fork_parameters, fork_origin, signature_threshold, threshold_origin, ctx, response, update>>

---------------------------------------------------------------------------
\* The fork table and its context: the threshold is the usual 2/3

InitFork ==
    /\ fork_parameters = None
    /\ fork_origin = "none"
    /\ signature_threshold = Fraction_new(2, 3).value
    /\ threshold_origin = "new"
    /\ ctx = None
    /\ result = [op |-> "none"]
    /\ response = None
    /\ update = None
    /\ store = None
    /\ call = None
    /\ persist = None

NextFork ==
    \/ ForkParametersNew
    \/ ForkParametersDefault
    \/ ForkParametersDeserialize
    \/ \E epoch \in EpochInputs : ComputeForkVersion(epoch)
    \/ \E epoch \in EpochInputs, fork_index \in ForkIndexInputs : IsFork(epoch, fork_index)
    \/ \E slots_per_epoch \in SlotsPerEpochInputs : NewContext(slots_per_epoch)
    \/ \E slot \in SlotInputs : ContextComputeForkSpec(slot)

SpecFork == InitFork /\ [][NextFork]_vars

---------------------------------------------------------------------------
\* What the fork-table claims are stated against: the table entries active at
\* an epoch, by definition rather than by scan

\* the (1-based) positions of the entries whose activation epoch is <= epoch
ActiveEntries(forks, epoch) == {i \in 1..Len(forks) : forks[i].epoch <= epoch}

\* the highest position in a non-empty set of positions
Highest(S) == CHOOSE i \in S : \A j \in S : j <= i

\* fs[i].epoch <= fs[i+1].epoch for every adjacent pair
NonDecreasing(forks) ==
    \A i \in 1..(Len(forks) - 1) : forks[i].epoch <= forks[i + 1].epoch

\* C1: ForkParameters::new(v, fs) returns Ok exactly when fs is non-empty and
\* its activation epochs are non-decreasing; it returns Err(NotSupportedLightClient)
\* when fs is empty and Err(InvalidForkParamersOrder) when fs is non-empty and
\* some entry is followed by one with a smaller epoch.
C1_NewValidates ==
    result.op = "ForkParameters::new" =>
        /\ (result.ret.tag = "Ok") <=>
               (result.forks # <<>> /\ NonDecreasing(result.forks))
        /\ (result.ret.tag = "Ok") =>
               /\ result.ret.value.genesis_version = result.genesis_version
               /\ result.ret.value.forks = result.forks
        /\ (result.forks = <<>>) =>
               /\ result.ret.tag = "Err"
               /\ result.ret.error.kind = "NotSupportedLightClient"
        /\ (result.forks # <<>> /\ ~NonDecreasing(result.forks)) =>
               /\ result.ret.tag = "Err"
               /\ result.ret.error.kind = "InvalidForkParamersOrder"

\* new() was called with a non-empty table that is out of order and refused it
C1_Witness ==
    /\ result.op = "ForkParameters::new"
    /\ Len(result.forks) = 2
    /\ result.forks[1].epoch > result.forks[2].epoch
    /\ result.ret.tag = "Err"

C3_AllZeroReturnsDeneb ==
    /\ (result.op = "ForkParameters::new" /\ result.forks = AllZeroForks) =>
           result.ret.tag = "Ok"
    /\ (/\ result.op = "compute_fork_version"
        /\ fork_origin = "new"
        /\ result.self.forks = AllZeroForks
        /\ result.epoch = 0) =>
           result.ret = Version(4)

\* C4: on a validated table, is_fork(e, idx) is true exactly when some fork is
\* active at e and the (0-based) table index of the last active fork is >= idx;
\* it is false for every idx when no fork is active.
C4_IsForkIffActiveIndexAtLeast ==
    (result.op = "is_fork" /\ fork_origin = "new") =>
        LET active == ActiveEntries(result.self.forks, result.epoch)
        IN  result.ret =
                (active # {} /\ Highest(active) - 1 >= result.fork_index)

\* is_fork answered true for exactly the index of the active fork, which is
\* not the first entry
C4_Witness ==
    /\ result.op = "is_fork"
    /\ fork_origin = "new"
    /\ result.ret = TRUE
    /\ result.fork_index >= 1
    /\ ActiveEntries(result.self.forks, result.epoch) # {}
    /\ Highest(ActiveEntries(result.self.forks, result.epoch)) - 1 = result.fork_index

ValidForkTable(fp) == fp.forks # <<>> /\ NonDecreasing(fp.forks)

\* C8: every ForkParameters value the public interface produces (new, Default,
\* deserialization) has a non-empty forks list with non-decreasing activation
\* epochs, whether the host still holds it or has moved it into a context.
C8_EveryTableValid ==
    /\ fork_parameters # None => ValidForkTable(fork_parameters)
    /\ ctx # None => ValidForkTable(ctx.fork_parameters)

\* C8, second half: no operation changes a ForkParameters value once it exists;
\* moving it into the context keeps it as it is.
C8_TableNeverChanges ==
    [][/\ (fork_parameters # None /\ fork_parameters' # None) =>
              fork_parameters' = fork_parameters
       /\ (fork_parameters # None /\ ctx' # None) =>
              ctx'.fork_parameters = fork_parameters
       /\ (ctx # None) =>
              (ctx' # None /\ ctx'.fork_parameters = ctx.fork_parameters)]_vars

---------------------------------------------------------------------------
\* Construction of the threshold

\* Fraction::new(numerator, denominator)
FractionNew(n, d) ==
    /\ signature_threshold = None /\ ctx = None
    /\ LET res == Fraction_new(n, d)
       IN  /\ result' = [op |-> "Fraction::new", numerator |-> n, denominator |-> d,
                         ret |-> res]
           /\ IF res.tag = "Ok"
              THEN signature_threshold' = res.value /\ threshold_origin' = "new"
              ELSE UNCHANGED <<signature_threshold, threshold_origin>>
    /\ UNCHANGED <<store, call, persist>>
    /\ UNCHANGED <<fork_parameters, fork_origin, ctx, response, update>>

\* Fraction::default()
FractionDefault ==
    /\ signature_threshold = None /\ ctx = None
    /\ signature_threshold' = Fraction_default
    /\ threshold_origin' = "default"
    /\ result' = [op |-> "Fraction::default", ret |-> Fraction_default]
    /\ UNCHANGED <<store, call, persist>>
    /\ UNCHANGED <<fork_parameters, fork_origin, ctx, response, update>>

\* serde deserialization of a Fraction
FractionDeserialize(n, d) ==
    /\ signature_threshold = None /\ ctx = None
    /\ signature_threshold' = Fraction_deserialize(n, d)
    /\ threshold_origin' = "deserialize"
    /\ result' = [op |-> "Fraction::deserialize", ret |-> Fraction_deserialize(n, d)]
    /\ UNCHANGED <<store, call, persist>>
    /\ UNCHANGED <<fork_parameters, fork_origin, ctx, response, update>>

\* Fraction::numerator(&self)
Numerator ==
    /\ signature_threshold # None
    /\ result' = [op |-> "numerator", self |-> signature_threshold,
                  ret |-> numerator(signature_threshold)]
    /\ UNCHANGED <<store, call, persist>>
    /\ UNCHANGED <<fork_parameters, fork_origin, signature_threshold, threshold_origin, ctx, response, update>>

\* Fraction::denominator(&self)
Denominator ==
    /\ signature_threshold # None
    /\ result' = [op |-> "denominator", self |-> signature_threshold,
                  ret |-> denominator(signature_threshold)]
    /\ UNCHANGED <<store, call, persist>>
    /\ UNCHANGED <<fork_parameters, fork_origin, signature_threshold, threshold_origin, ctx, response, update>>

\* ConsensusVerificationContext::signature_threshold(&self): a clone
ContextSignatureThreshold ==
    /\ ctx # None
    /\ result' = [op |-> "ctx.signature_threshold", self |-> ctx,
                  ret |-> ctx_signature_threshold(ctx)]
    /\ UNCHANGED <<store, call, persist>>
    /\ UNCHANGED <<fork_parameters, fork_origin, signature_threshold, threshold_origin, ctx, response, update>>

---------------------------------------------------------------------------
\* The threshold and its context: the fork table is that of test_fork_parameters

InitFraction ==
    /\ fork_parameters = ForkParameters_new(TestGenesisVersion, AscendingForks).value
    /\ fork_origin = "new"
    /\ signature_threshold = None
    /\ threshold_origin = "none"
    /\ ctx = None
    /\ result = [op |-> "none"]
    /\ response = None
    /\ update = None
    /\ store = None
    /\ call = None
    /\ persist = None

NextFraction ==
    \/ \E n \in NumInputs, d \in NumInputs : FractionNew(n, d)
    \/ FractionDefault
    \/ \E n \in NumInputs, d \in NumInputs : FractionDeserialize(n, d)
    \/ Numerator
    \/ Denominator
    \/ \E slots_per_epoch \in SlotsPerEpochInputs : NewContext(slots_per_epoch)
    \/ ContextSignatureThreshold

SpecFraction == InitFraction /\ [][NextFraction]_vars

\* C6: Fraction::new(n, d) returns Ok exactly when d != 0 and n <= d, and then
\* numerator() = n and denominator() = d on the returned value; otherwise it
\* returns Err(InvalidFraction) carrying n and d.
C6_FractionNew ==
    result.op = "Fraction::new" =>
        /\ (result.ret.tag = "Ok") <=>
               (result.denominator # 0 /\ result.numerator <= result.denominator)
        /\ (result.ret.tag = "Ok") =>
               /\ numerator(result.ret.value) = result.numerator
               /\ denominator(result.ret.value) = result.denominator
        /\ (result.ret.tag = "Err") =>
               /\ result.ret.error.kind = "InvalidFraction"
               /\ result.ret.error.fraction.numerator = result.numerator
               /\ result.ret.error.fraction.denominator = result.denominator

\* Fraction::new accepted a fraction equal to one, numerator = denominator > 0
C6_Witness ==
    /\ result.op = "Fraction::new"
    /\ result.numerator = result.denominator
    /\ result.denominator > 0
    /\ result.ret.tag = "Ok"

\* C7: every Fraction that reaches a verification context as its
\* signature_threshold, however it was produced (Fraction::new, Default,
\* deserialization), has denominator != 0 and numerator <= denominator.
C7_EveryThresholdValid ==
    ctx # None =>
        /\ ctx.signature_threshold.denominator # 0
        /\ ctx.signature_threshold.numerator <= ctx.signature_threshold.denominator

---------------------------------------------------------------------------
\* lodestar_rpc/src/types.rs

\* SyncCommittee::default(): every public key and the aggregate key all-zero
SyncCommittee_default ==
    [pubkeys |-> [i \in 1..SYNC_COMMITTEE_SIZE |-> 0], aggregate_pubkey |-> 0]

\* a conversion that swaps the two headers of a finality update
From_LightClientFinalityUpdateData_swapped(value) ==
    [ attested_header |-> value.finalized_header,
      next_sync_committee |-> None,
      finalized_header |-> value.attested_header,
      finality_branch |-> value.finality_branch,
      sync_aggregate |-> value.sync_aggregate,
      signature_slot |-> value.signature_slot ]

\* impl From<LightClientFinalityUpdateData> for LightClientUpdate
From_LightClientFinalityUpdateData(value) ==
    [ attested_header |-> value.attested_header,
      next_sync_committee |-> None,
      finalized_header |-> value.finalized_header,
      finality_branch |-> value.finality_branch,
      sync_aggregate |-> value.sync_aggregate,
      signature_slot |-> value.signature_slot ]

\* a conversion that takes the committee as absent as soon as its public keys
\* are all-zero, without looking at the aggregate key
From_LightClientUpdateData_pubkeys_only(value) ==
    [ attested_header |-> value.attested_header,
      next_sync_committee |->
          IF value.next_sync_committee.pubkeys = SyncCommittee_default.pubkeys
          THEN None
          ELSE Some(<<value.next_sync_committee, value.next_sync_committee_branch>>),
      finalized_header |-> value.finalized_header,
      finality_branch |-> value.finality_branch,
      sync_aggregate |-> value.sync_aggregate,
      signature_slot |-> value.signature_slot ]

\* impl From<LightClientUpdateData> for LightClientUpdate
From_LightClientUpdateData(value) ==
    [ attested_header |-> value.attested_header,
      next_sync_committee |->
          IF value.next_sync_committee = SyncCommittee_default
          THEN None
          ELSE Some(<<value.next_sync_committee, value.next_sync_committee_branch>>),
      finalized_header |-> value.finalized_header,
      finality_branch |-> value.finality_branch,
      sync_aggregate |-> value.sync_aggregate,
      signature_slot |-> value.signature_slot ]

\* opaque values: a header, a sync aggregate, a slot
IdInputs == 0..MaxId

\* a public key or a hash: the all-zero one (0) and another (1)
BytesInputs == {0, 1}

BranchInputs == SeqsUpTo(BytesInputs, MaxBranch)

SyncCommitteeInputs ==
    [pubkeys : [1..SYNC_COMMITTEE_SIZE -> BytesInputs], aggregate_pubkey : BytesInputs]

LightClientFinalityUpdateDataInputs ==
    [ attested_header : IdInputs,
      finalized_header : IdInputs,
      finality_branch : BranchInputs,
      sync_aggregate : IdInputs,
      signature_slot : IdInputs ]

LightClientUpdateDataInputs ==
    [ attested_header : IdInputs,
      next_sync_committee : SyncCommitteeInputs,
      next_sync_committee_branch : BranchInputs,
      finalized_header : IdInputs,
      finality_branch : BranchInputs,
      sync_aggregate : IdInputs,
      signature_slot : IdInputs ]

\* the beacon node answers with a LightClientUpdateData
ReceiveUpdateData ==
    /\ response = None
    /\ \E value \in LightClientUpdateDataInputs :
           response' = [type |-> "LightClientUpdateData", data |-> value]
    /\ UNCHANGED <<store, call, persist>>
    /\ UNCHANGED <<fork_parameters, fork_origin, signature_threshold, threshold_origin,
                   ctx, result, update>>

\* the beacon node answers with a LightClientFinalityUpdateData
ReceiveFinalityUpdateData ==
    /\ response = None
    /\ \E value \in LightClientFinalityUpdateDataInputs :
           response' = [type |-> "LightClientFinalityUpdateData", data |-> value]
    /\ UNCHANGED <<store, call, persist>>
    /\ UNCHANGED <<fork_parameters, fork_origin, signature_threshold, threshold_origin,
                   ctx, result, update>>

\* LightClientUpdate::from(data) on a LightClientUpdateData
FromUpdateData ==
    /\ response # None /\ update = None
    /\ response.type = "LightClientUpdateData"
    /\ update' = From_LightClientUpdateData(response.data)
    /\ UNCHANGED <<store, call, persist>>
    /\ UNCHANGED <<fork_parameters, fork_origin, signature_threshold, threshold_origin,
                   ctx, result, response>>

\* LightClientUpdate::from(data) on a LightClientFinalityUpdateData
FromFinalityUpdateData ==
    /\ response # None /\ update = None
    /\ response.type = "LightClientFinalityUpdateData"
    /\ update' = From_LightClientFinalityUpdateData(response.data)
    /\ UNCHANGED <<store, call, persist>>
    /\ UNCHANGED <<fork_parameters, fork_origin, signature_threshold, threshold_origin,
                   ctx, result, response>>

InitRpc ==
    /\ fork_parameters = None
    /\ fork_origin = "none"
    /\ signature_threshold = None
    /\ threshold_origin = "none"
    /\ ctx = None
    /\ result = [op |-> "none"]
    /\ response = None
    /\ update = None
    /\ store = None
    /\ call = None
    /\ persist = None

NextRpc ==
    \/ ReceiveUpdateData
    \/ ReceiveFinalityUpdateData
    \/ FromUpdateData
    \/ FromFinalityUpdateData

SpecRpc == InitRpc /\ [][NextRpc]_vars

\* every public key of the committee and its aggregate key are all-zero
AllZeroCommittee(c) ==
    /\ \A i \in DOMAIN c.pubkeys : c.pubkeys[i] = 0
    /\ c.aggregate_pubkey = 0

\* the five fields that both wire types share are the same in wire value v and
\* update u
SameSharedFields(v, u) ==
    /\ u.attested_header = v.attested_header
    /\ u.finalized_header = v.finalized_header
    /\ u.finality_branch = v.finality_branch
    /\ u.sync_aggregate = v.sync_aggregate
    /\ u.signature_slot = v.signature_slot

\* C9: converting a LightClientUpdateData yields next_sync_committee = None
\* exactly when the wire committee is the all-zero default, whatever the wire
\* branch holds; otherwise Some of that committee paired with exactly the wire
\* branch; the five other fields are copied unchanged in both cases.
C9_DefaultCommitteeIsAbsent ==
    (update # None /\ response.type = "LightClientUpdateData") =>
        /\ (update.next_sync_committee = None) <=>
               AllZeroCommittee(response.data.next_sync_committee)
        /\ ~AllZeroCommittee(response.data.next_sync_committee) =>
               /\ update.next_sync_committee.tag = "Some"
               /\ update.next_sync_committee.value[1] = response.data.next_sync_committee
               /\ update.next_sync_committee.value[2] =
                      response.data.next_sync_committee_branch
        /\ SameSharedFields(response.data, update)

\* an all-zero committee came with a non-empty branch and was taken as absent
C9_Witness ==
    /\ update # None
    /\ response.type = "LightClientUpdateData"
    /\ AllZeroCommittee(response.data.next_sync_committee)
    /\ response.data.next_sync_committee_branch # <<>>
    /\ update.next_sync_committee = None

\* C10: converting a LightClientFinalityUpdateData f gives the update that
\* converting a LightClientUpdateData with f's five fields and a default
\* next_sync_committee gives, whatever branch that one carries: no
\* next_sync_committee, and the five fields of f.
C10_FinalityIsUpdateWithoutCommittee ==
    (update # None /\ response.type = "LightClientFinalityUpdateData") =>
        /\ \A branch \in BranchInputs :
               update =
                   From_LightClientUpdateData(
                       [ attested_header |-> response.data.attested_header,
                         next_sync_committee |-> SyncCommittee_default,
                         next_sync_committee_branch |-> branch,
                         finalized_header |-> response.data.finalized_header,
                         finality_branch |-> response.data.finality_branch,
                         sync_aggregate |-> response.data.sync_aggregate,
                         signature_slot |-> response.data.signature_slot ])
        /\ update.next_sync_committee = None
        /\ SameSharedFields(response.data, update)

\* a finality update whose two headers differ and whose finality branch is not
\* empty was converted
C10_Witness ==
    /\ update # None
    /\ response.type = "LightClientFinalityUpdateData"
    /\ response.data.attested_header # response.data.finalized_header
    /\ response.data.finality_branch # <<>>
    /\ update.next_sync_committee = None

---------------------------------------------------------------------------
\* The verifier's clock (context.rs, compute.rs)

\* how a call that returns a plain value ends: with the value, or by panicking
Returns(x) == [tag |-> "Return", value |-> x]

Panics == [tag |-> "Panic"]

\* ChainContext::genesis_time for LightClientContext
ctx_genesis_time(self) == self.genesis_time

\* ChainContext::seconds_per_slot for LightClientContext
ctx_seconds_per_slot(self) == self.seconds_per_slot

\* compute::compute_slot_at_timestamp: (ts - genesis_time) / seconds_per_slot,
\* and a failure when ts < genesis_time. It returns a Slot, not a Result
\* (current_slot returns what it returns, as a Slot), so the failure is a panic.
compute_slot_at_timestamp(self, timestamp) ==
    IF timestamp < ctx_genesis_time(self)
    THEN Panics
    ELSE Returns((timestamp - ctx_genesis_time(self)) \div ctx_seconds_per_slot(self))

\* a current_slot that reads the slot of the genesis time, not of the clock
ctx_current_slot_genesis(self) == compute_slot_at_timestamp(self, self.genesis_time)

\* ConsensusVerificationContext::current_slot for LightClientContext
ctx_current_slot(self) == compute_slot_at_timestamp(self, self.current_timestamp)

TimeInputs == 0..MaxTime

SecondsPerSlotInputs == 1..MaxSecondsPerSlot

\* LightClientContext::new with a chosen genesis time, slot length and clock
\* reading; the other preset values are those of a mainnet-like configuration
NewContextAt(seconds_per_slot, genesis_time, current_timestamp) ==
    /\ ctx = None
    /\ fork_parameters # None
    /\ signature_threshold # None
    /\ ctx' = LightClientContext_new(fork_parameters, seconds_per_slot, 32, 256, genesis_time,
                                     0, 1, signature_threshold, current_timestamp)
    /\ fork_parameters' = None
    /\ signature_threshold' = None
    /\ result' = [op |-> "LightClientContext::new"]
    /\ UNCHANGED <<fork_origin, threshold_origin, response, update, store, call, persist>>

\* ConsensusVerificationContext::current_slot(&self)
ContextCurrentSlot ==
    /\ ctx # None
    /\ result' = [op |-> "ctx.current_slot", self |-> ctx, ret |-> ctx_current_slot(ctx)]
    /\ UNCHANGED <<fork_parameters, fork_origin, signature_threshold, threshold_origin, ctx,
                   response, update, store, call, persist>>

\* ChainContext::genesis_time(&self)
ContextGenesisTime ==
    /\ ctx # None
    /\ result' = [op |-> "ctx.genesis_time", self |-> ctx, ret |-> ctx_genesis_time(ctx)]
    /\ UNCHANGED <<fork_parameters, fork_origin, signature_threshold, threshold_origin, ctx,
                   response, update, store, call, persist>>

\* ChainContext::seconds_per_slot(&self)
ContextSecondsPerSlot ==
    /\ ctx # None
    /\ result' = [op |-> "ctx.seconds_per_slot", self |-> ctx,
                  ret |-> ctx_seconds_per_slot(ctx)]
    /\ UNCHANGED <<fork_parameters, fork_origin, signature_threshold, threshold_origin, ctx,
                   response, update, store, call, persist>>

\* the fork table is that of test_fork_parameters, the threshold the usual 2/3
InitSlot ==
    /\ fork_parameters = ForkParameters_new(TestGenesisVersion, AscendingForks).value
    /\ fork_origin = "new"
    /\ signature_threshold = Fraction_new(2, 3).value
    /\ threshold_origin = "new"
    /\ ctx = None
    /\ result = [op |-> "none"]
    /\ response = None
    /\ update = None
    /\ store = None
    /\ call = None
    /\ persist = None

NextSlot ==
    \/ \E sps \in SecondsPerSlotInputs, gt \in TimeInputs, ts \in TimeInputs :
           NewContextAt(sps, gt, ts)
    \/ ContextCurrentSlot
    \/ ContextGenesisTime
    \/ ContextSecondsPerSlot

SpecSlot == InitSlot /\ [][NextSlot]_vars

C11_Witness ==
    /\ result.op = "ctx.current_slot"
    /\ result.self.genesis_time > 0
    /\ result.self.seconds_per_slot > 1
    /\ result.self.current_timestamp > result.self.genesis_time
    /\ result.ret = Returns(1)

---------------------------------------------------------------------------
\* The Store and process_update (spec sections 3, 4.F, 4.G, 4.H, 4.I)
\*
\* A header is its slot. A sync committee is the number of the period it
\* serves. An update carries the number of set bits of its sync aggregate
\* (active) and, for the Merkle, fork and BLS checks, which of them it fails
\* (fault).

\* compute_sync_committee_period(slot) = epoch_at_slot(slot) / epochs_per_sync_committee_period
compute_sync_committee_period(self, slot) ==
    compute_epoch_at_slot(self, slot) \div self.epochs_per_sync_committee_period

\* the Store made from a trusted LightClientBootstrap whose header is at `slot`
store_from_bootstrap(self, slot) ==
    [ finalized_header |-> [slot |-> slot],
      optimistic_header |-> [slot |-> slot],
      current_sync_committee |-> compute_sync_committee_period(self, slot),
      next_sync_committee |-> None,
      best_valid_update |-> None,
      current_max_active_participants |-> 0,
      previous_max_active_participants |-> 0 ]

\* 4.H rule 1, time sanity
time_sane(upd, current_slot) ==
    /\ upd.signature_slot > upd.attested_header.slot
    /\ upd.finalized_header # None =>
           upd.attested_header.slot >= upd.finalized_header.value.slot
    /\ upd.signature_slot <= current_slot

\* 4.H rule 2, period relation
in_store_window(self, st, upd) ==
    LET store_period == compute_sync_committee_period(self, st.finalized_header.slot)
        signature_period == compute_sync_committee_period(self, upd.signature_slot)
    IN  IF st.next_sync_committee # None
        THEN signature_period \in {store_period, store_period + 1}
        ELSE signature_period = store_period

\* 4.G step 7, quorum: popcount * denominator >= size * numerator
has_quorum(self, upd) ==
    upd.active * denominator(ctx_signature_threshold(self)) >=
        SYNC_COMMITTEE_SIZE * numerator(ctx_signature_threshold(self))

\* 4.H validate_light_client_update: Ok, or the first rejection
validate_light_client_update(self, st, upd, current_slot) ==
    IF ~time_sane(upd, current_slot) THEN Err([kind |-> "NonMonotonicSlot"])
    ELSE IF ~in_store_window(self, st, upd)
    THEN Err([kind |-> "SignatureSlotNotInStoreWindow"])
    ELSE IF upd.fault = "merkle" THEN Err([kind |-> "InvalidMerkleBranch"])
    ELSE IF upd.fault = "fork" THEN Err([kind |-> "NotSupportedExecutionPayload"])
    ELSE IF upd.active < self.min_sync_committee_participants
    THEN Err([kind |-> "InsufficientParticipation"])
    ELSE IF upd.fault = "bls" THEN Err([kind |-> "BLSAggregatePublicKeyMismatch"])
    ELSE IF ~has_quorum(self, upd) THEN Err([kind |-> "InsufficientParticipation"])
    ELSE Ok(<<>>)

\* 4.I best-update bookkeeping: the update with the most set bits is kept, and
\* the largest number of set bits seen in the period is counted
bookkeep(st, upd) ==
    [st EXCEPT
        !.best_valid_update =
            IF st.best_valid_update = None \/ upd.active > st.best_valid_update.value.active
            THEN Some(upd) ELSE @,
        !.current_max_active_participants = IF upd.active > @ THEN upd.active ELSE @]

\* 4.I optimistic apply
apply_optimistic(st, upd, before) ==
    IF /\ upd.attested_header.slot > before.optimistic_header.slot
       /\ upd.active > before.current_max_active_participants \div 2
    THEN [st EXCEPT !.optimistic_header = upd.attested_header]
    ELSE st

\* 4.I immediate apply, condition 1: a newer finalized header with a supermajority
finalizes(st, upd) ==
    /\ upd.finalized_header # None
    /\ upd.finalized_header.value.slot > st.finalized_header.slot
    /\ 3 * upd.active >= 2 * SYNC_COMMITTEE_SIZE

\* 4.I immediate apply, condition 2: a previously-unknown next_sync_committee
\* at the current period
adds_next_sync_committee(self, st, upd) ==
    /\ upd.next_sync_committee # None
    /\ st.next_sync_committee = None
    /\ compute_sync_committee_period(self, upd.attested_header.slot) =
           compute_sync_committee_period(self, st.finalized_header.slot)

\* an apply that takes the update's finalized header whenever it applies, also
\* when it applies only for the next_sync_committee
apply_update_any_header(self, st, upd) ==
    LET withNext == IF adds_next_sync_committee(self, st, upd)
                    THEN [st EXCEPT !.next_sync_committee = upd.next_sync_committee]
                    ELSE st
    IN  IF (finalizes(st, upd) \/ adds_next_sync_committee(self, st, upd))
           /\ upd.finalized_header # None
        THEN [withNext EXCEPT !.finalized_header = upd.finalized_header.value]
        ELSE withNext

\* 4.I immediate apply: the next committee is learnt (condition 2), the
\* finalized header advances (condition 1)
apply_update(self, st, upd) ==
    LET withNext == IF adds_next_sync_committee(self, st, upd)
                    THEN [st EXCEPT !.next_sync_committee = upd.next_sync_committee]
                    ELSE st
    IN  IF finalizes(st, upd)
        THEN [withNext EXCEPT !.finalized_header = upd.finalized_header.value]
        ELSE withNext

\* 4.I committee rotation, when the finalized slot has crossed into a new period
rotate(self, st, before) ==
    IF compute_sync_committee_period(self, st.finalized_header.slot) >
           compute_sync_committee_period(self, before.finalized_header.slot)
    THEN [st EXCEPT
             !.current_sync_committee =
                 IF st.next_sync_committee # None THEN st.next_sync_committee.value ELSE @,
             !.next_sync_committee = None,
             !.previous_max_active_participants = st.current_max_active_participants,
             !.current_max_active_participants = 0]
    ELSE st

\* a process_update that does its bookkeeping before it validates, so that a
\* rejected update has already been counted
process_update_eager(self, st, upd, current_slot) ==
    LET res == validate_light_client_update(self, st, upd, current_slot)
    IN  IF res.tag = "Err"
        THEN [ret |-> res, store |-> bookkeep(st, upd)]
        ELSE [ret |-> Ok(<<>>),
              store |-> rotate(self,
                               apply_optimistic(apply_update(self, bookkeep(st, upd), upd),
                                                upd, st),
                               st)]

\* 4.I process_update: [ret, store], the result and the store to commit
process_update(self, st, upd, current_slot) ==
    LET res == validate_light_client_update(self, st, upd, current_slot)
    IN  IF res.tag = "Err"
        THEN [ret |-> res, store |-> st]
        ELSE [ret |-> Ok(<<>>),
              store |-> rotate(self,
                               apply_optimistic(apply_update(self, bookkeep(st, upd), upd),
                                                upd, st),
                               st)]

---------------------------------------------------------------------------
\* The store's states: bootstrap, then process_update calls

\* the context of the store's runs: one slot per epoch, two epochs per period,
\* a threshold of 1/2, and a clock that reads slot MaxStoreSlot
StoreContext ==
    LightClientContext_new(ForkParameters_new(TestGenesisVersion, AscendingForks).value,
                           1, 1, 2, 0, 0, 1, Fraction_new(1, 2).value, MaxStoreSlot)

StoreSlotInputs == 0..MaxStoreSlot

FaultInputs == {"none", "merkle", "fork", "bls"}

\* the updates a caller can hand to process_update; each is signed in the slot
\* after its attested header
ConsensusUpdateInputs ==
    { [ attested_header |-> [slot |-> att],
        finalized_header |-> fin,
        next_sync_committee |->
            IF next THEN Some(compute_sync_committee_period(StoreContext, att) + 1) ELSE None,
        active |-> active,
        signature_slot |-> att + 1,
        fault |-> fault ] :
      att \in StoreSlotInputs,
      fin \in {None} \cup {Some([slot |-> s]) : s \in StoreSlotInputs},
      next \in BOOLEAN,
      active \in 0..SYNC_COMMITTEE_SIZE,
      fault \in FaultInputs }

\* process_update is entered: nothing is written yet
BeginProcessUpdate ==
    /\ call.pc # "running"
    /\ call.count < MaxUpdates
    /\ \E upd \in ConsensusUpdateInputs :
           call' = [pc |-> "running", count |-> call.count + 1, update |-> upd,
                    before |-> store]
    /\ result' = [op |-> "process_update"]
    /\ UNCHANGED <<fork_parameters, fork_origin, signature_threshold, threshold_origin, ctx,
                   response, update, store, persist>>

\* process_update runs to its end: an error, or the commit of the new store
FinishProcessUpdate ==
    /\ call.pc = "running"
    /\ LET out == process_update(ctx, store, call.update, ctx_current_slot(ctx).value)
       IN  /\ store' = out.store
           /\ call' = [pc |-> IF out.ret.tag = "Err" THEN "rejected" ELSE "committed",
                       count |-> call.count, before |-> call.before]
           /\ result' = [op |-> "process_update", ret |-> out.ret]
    /\ UNCHANGED <<fork_parameters, fork_origin, signature_threshold, threshold_origin, ctx,
                   response, update, persist>>

\* the caller drops the future before it completes
AbandonProcessUpdate ==
    /\ call.pc = "running"
    /\ call' = [pc |-> "abandoned", count |-> call.count, before |-> call.before]
    /\ result' = [op |-> "process_update", ret |-> None]
    /\ UNCHANGED <<fork_parameters, fork_origin, signature_threshold, threshold_origin, ctx,
                   response, update, store, persist>>

InitStore ==
    /\ fork_parameters = None
    /\ fork_origin = "new"
    /\ signature_threshold = None
    /\ threshold_origin = "new"
    /\ ctx = StoreContext
    /\ result = [op |-> "none"]
    /\ response = None
    /\ update = None
    /\ \E slot \in StoreSlotInputs : store = store_from_bootstrap(StoreContext, slot)
    /\ call = [pc |-> "idle", count |-> 0]
    /\ persist = None

NextStore ==
    \/ BeginProcessUpdate
    \/ FinishProcessUpdate
    \/ AbandonProcessUpdate

SpecStore == InitStore /\ [][NextStore]_vars

\* C12: a process_update call that returned an error, or that was abandoned
\* before it completed, has left every field of the Store as it was when the
\* call began; and while the call runs, nothing is written
C12_ErrorLeavesStore ==
    (call # None /\ call.pc \in {"running", "rejected", "abandoned"}) => store = call.before

\* a call was rejected after an earlier one had been committed
C12_Witness ==
    /\ call # None
    /\ call.pc = "rejected"
    /\ call.count = 2
    /\ result.ret.error.kind = "InvalidMerkleBranch"
    /\ store.best_valid_update # None

\* a call was rejected for its fork
C12_WitnessFork ==
    /\ call # None
    /\ call.pc = "rejected"
    /\ result.ret.error.kind = "NotSupportedExecutionPayload"

\* a call was abandoned
C12_WitnessAbandoned ==
    /\ call # None
    /\ call.pc = "abandoned"
    /\ store.next_sync_committee # None

\* the sync-committee period of a store's finalized header
finalized_period(st) == compute_sync_committee_period(StoreContext, st.finalized_header.slot)

\* C13: over every step of every sequence of process_update calls, the period
\* of store.finalized_header.slot does not decrease
C13_PeriodNeverDecreases ==
    [][(store # None /\ store' # None) =>
           finalized_period(store') >= finalized_period(store)]_vars

\* a committed call took the finalized header into the next period and rotated
\* the committees
C13_WitnessRotation ==
    /\ call # None
    /\ call.pc = "committed"
    /\ finalized_period(store) > finalized_period(call.before)
    /\ store.current_sync_committee # call.before.current_sync_committee
    /\ store.next_sync_committee = None

\* a committed call applied only because it brought the next_sync_committee,
\* and its own finalized header was of an earlier period than the store's
C13_WitnessNextOnly ==
    /\ call # None
    /\ call.pc = "committed"
    /\ call.count = 1
    /\ call.before.next_sync_committee = None
    /\ store.next_sync_committee # None
    /\ store.finalized_header = call.before.finalized_header
    /\ store.best_valid_update # None
    /\ store.best_valid_update.value.finalized_header # None
    /\ compute_sync_committee_period(StoreContext,
           store.best_valid_update.value.finalized_header.value.slot) < finalized_period(store)

---------------------------------------------------------------------------
\* PersistCommand::run (light_client_cli/src/commands/persist.rs)
\*
\* An argument is None or Some(text); a text is "valid" when serde_json parses
\* it and "invalid" when it does not. stored records, for each of the three
\* stores, "none" while it has not been called, then "ok" or "err". notified
\* counts the notifications sent.

ArgInputs == {None, Some("valid"), Some("invalid")}

\* serde_json::from_str
from_str(text) == IF text = "valid" THEN Ok(text) ELSE Err([kind |-> "serde_json"])

\* Result<()> of LightClient::store_boostrap, store_light_client_state, store_genesis
StoreResultInputs == {Ok(<<>>), Err([kind |-> "store"])}

stored_as(res) == IF res.tag = "Ok" THEN "ok" ELSE "err"

\* PersistCommand { bootstrap_info, state_info, genesis_info } is run
PersistRun ==
    /\ persist = None
    /\ \E bootstrap_info \in ArgInputs, state_info \in ArgInputs, genesis_info \in ArgInputs :
           persist' = [ pc |-> "genesis_info",
                        bootstrap_info |-> bootstrap_info,
                        state_info |-> state_info,
                        genesis_info |-> genesis_info,
                        stored |-> [bootstrap |-> "none", state |-> "none", genesis |-> "none"],
                        notified |-> 0,
                        ret |-> None ]
    /\ UNCHANGED <<fork_parameters, fork_origin, signature_threshold, threshold_origin, ctx,
                   result, response, update, store, call>>

\* let genesis_info = match self.genesis_info { .. }: a missing or unparsable
\* genesis_info returns Ok(()) at once
PersistGenesisInfo ==
    /\ persist # None
    /\ persist.pc = "genesis_info"
    /\ persist' =
           IF persist.genesis_info = None \/ from_str(persist.genesis_info.value).tag = "Err"
           THEN [persist EXCEPT !.pc = "returned", !.ret = Some(Ok(<<>>))]
           ELSE [persist EXCEPT !.pc = "bootstrap_info"]
    /\ UNCHANGED <<fork_parameters, fork_origin, signature_threshold, threshold_origin, ctx,
                   result, response, update, store, call>>

\* let _ = match self.bootstrap_info { .. }: the text is parsed first and a
\* parse error returns Ok(()); the Result of store_boostrap is dropped
PersistBootstrapInfo ==
    /\ persist # None
    /\ persist.pc = "bootstrap_info"
    /\ IF persist.bootstrap_info = None
       THEN persist' = [persist EXCEPT !.pc = "state_info"]
       ELSE IF from_str(persist.bootstrap_info.value).tag = "Err"
       THEN persist' = [persist EXCEPT !.pc = "returned", !.ret = Some(Ok(<<>>))]
       ELSE \E res \in StoreResultInputs :
                persist' = [persist EXCEPT !.pc = "state_info",
                                           !.stored.bootstrap = stored_as(res)]
    /\ UNCHANGED <<fork_parameters, fork_origin, signature_threshold, threshold_origin, ctx,
                   result, response, update, store, call>>

\* let _ = match self.state_info { .. }: as for bootstrap_info, with
\* store_light_client_state
PersistStateInfo ==
    /\ persist # None
    /\ persist.pc = "state_info"
    /\ IF persist.state_info = None
       THEN persist' = [persist EXCEPT !.pc = "store_genesis"]
       ELSE IF from_str(persist.state_info.value).tag = "Err"
       THEN persist' = [persist EXCEPT !.pc = "returned", !.ret = Some(Ok(<<>>))]
       ELSE \E res \in StoreResultInputs :
                persist' = [persist EXCEPT !.pc = "store_genesis",
                                           !.stored.state = stored_as(res)]
    /\ UNCHANGED <<fork_parameters, fork_origin, signature_threshold, threshold_origin, ctx,
                   result, response, update, store, call>>

\* lc.store_genesis(&genesis_info)?: an error is returned to the caller
PersistStoreGenesis ==
    /\ persist # None
    /\ persist.pc = "store_genesis"
    /\ \E res \in StoreResultInputs :
           persist' =
               IF res.tag = "Err"
               THEN [persist EXCEPT !.pc = "returned", !.ret = Some(res),
                                    !.stored.genesis = stored_as(res)]
               ELSE [persist EXCEPT !.pc = "send_string", !.stored.genesis = stored_as(res)]
    /\ UNCHANGED <<fork_parameters, fork_origin, signature_threshold, threshold_origin, ctx,
                   result, response, update, store, call>>

\* klave::notifier::send_string(..); Ok(())
PersistNotify ==
    /\ persist # None
    /\ persist.pc = "send_string"
    /\ persist' = [persist EXCEPT !.pc = "returned", !.ret = Some(Ok(<<>>)),
                                  !.notified = @ + 1]
    /\ UNCHANGED <<fork_parameters, fork_origin, signature_threshold, threshold_origin, ctx,
                   result, response, update, store, call>>

InitPersist ==
    /\ fork_parameters = None
    /\ fork_origin = "none"
    /\ signature_threshold = None
    /\ threshold_origin = "none"
    /\ ctx = None
    /\ result = [op |-> "none"]
    /\ response = None
    /\ update = None
    /\ store = None
    /\ call = None
    /\ persist = None

NextPersist ==
    \/ PersistRun
    \/ PersistGenesisInfo
    \/ PersistBootstrapInfo
    \/ PersistStateInfo
    \/ PersistStoreGenesis
    \/ PersistNotify

SpecPersist == InitPersist /\ [][NextPersist]_vars

\* C14: when the notification has been sent, genesis_info was given and parsed,
\* the genesis store has succeeded, and every bootstrap_info and state_info
\* that was supplied has been parsed and stored successfully
C14_NotifiedOnlyAfterAllStored ==
    (persist # None /\ persist.notified > 0) =>
        /\ persist.genesis_info = Some("valid")
        /\ persist.stored.genesis = "ok"
        /\ persist.bootstrap_info # None =>
               persist.bootstrap_info = Some("valid") /\ persist.stored.bootstrap = "ok"
        /\ persist.state_info # None =>
               persist.state_info = Some("valid") /\ persist.stored.state = "ok"

====
